---- MODULE Spec2Model ----
(***************************************************************************)
(* A model of the wikimapia scraper: the link collector                    *)
(* (get_wikimapia_links_from_html), the two extractors (HTMLGeoScraper,    *)
(* APIGeoScraper) and their pipeline call (__call__), with the two sinks   *)
(* (the output file and the mongo collection).                             *)
(*                                                                         *)
(* Python values are tagged records: the tag t names the Python type and   *)
(* fixes the shape of the payload v.  A dict keeps its insertion order: it *)
(* is a sequence of <<key, value>> pairs.  A str is a sequence of atoms,   *)
(* each atom either one whitespace character or a run of non-whitespace    *)
(* characters; the empty str is <<>>.                                      *)
(***************************************************************************)
EXTENDS Integers, Sequences, FiniteSets, TLC

VARIABLES pc, scraper, resp, gets, ret, file, store

vars == <<pc, scraper, resp, gets, ret, file, store>>

(***************************** bounds **************************************)
MaxNodes == 3
MaxPlaces == 2
MaxCalls == 2

(************************* Python values ***********************************)
PyNone == [t |-> "None"]
PyStr(s) == [t |-> "str", v |-> s]
PyList(l) == [t |-> "list", v |-> l]
PyDict(d) == [t |-> "dict", v |-> d]
\* a float, kept as its literal
PyFloat(lit) == [t |-> "float", v |-> lit]

IsNone(x) == x.t = "None"

Ok(v) == [ok |-> TRUE, val |-> v]
\* an exception in flight: its class and its message
RaiseMsg(e, msg) == [ok |-> FALSE, exc |-> [type |-> e, msg |-> msg]]
Raise(e) == RaiseMsg(e, <<>>)

Range(s) == {s[i] : i \in 1..Len(s)}

\* the keys of a dict, in insertion order
Keys(d) == [i \in 1..Len(d.v) |-> d.v[i][1]]

HasKey(d, k) == \E i \in 1..Len(d.v) : d.v[i][1] = k

Lookup(d, k) == d.v[CHOOSE i \in 1..Len(d.v) : d.v[i][1] = k][2]

\* obj[key]: KeyError on a dict without the key, TypeError on a value that
\* is no dict (a list, a string, a number or None subscripted by a string)
Subscript(obj, k) ==
    IF obj.t = "dict"
    THEN IF HasKey(obj, k) THEN Ok(Lookup(obj, k)) ELSE Raise("KeyError")
    ELSE Raise("TypeError")

(***************************** texts ***************************************)
IsSpace(a) == a \in {" ", "\n", "\t"}

\* str.split(): the maximal runs of non-whitespace, in order
RECURSIVE SplitFrom(_, _, _)
SplitFrom(text, cur, acc) ==
    IF text = <<>>
    THEN IF cur = <<>> THEN acc ELSE Append(acc, cur)
    ELSE IF IsSpace(Head(text))
         THEN SplitFrom(Tail(text), <<>>, IF cur = <<>> THEN acc ELSE Append(acc, cur))
         ELSE SplitFrom(Tail(text), Append(cur, Head(text)), acc)

Split(text) == SplitFrom(text, <<>>, <<>>)

\* str.split(sep): every piece between separators, empty pieces kept
RECURSIVE SplitOnFrom(_, _, _, _)
SplitOnFrom(text, sep, cur, acc) ==
    IF text = <<>>
    THEN Append(acc, cur)
    ELSE IF Head(text) = sep
         THEN SplitOnFrom(Tail(text), sep, <<>>, Append(acc, cur))
         ELSE SplitOnFrom(Tail(text), sep, Append(cur, Head(text)), acc)

SplitOn(text, sep) == SplitOnFrom(text, sep, <<>>, <<>>)

\* str.strip(): leading and trailing whitespace removed
RECURSIVE LStrip(_)
LStrip(text) ==
    IF text # <<>> /\ IsSpace(Head(text)) THEN LStrip(Tail(text)) ELSE text

RECURSIVE RStrip(_)
RStrip(text) ==
    IF text # <<>> /\ IsSpace(text[Len(text)])
    THEN RStrip(SubSeq(text, 1, Len(text) - 1))
    ELSE text

Strip(text) == RStrip(LStrip(text))

\* a list of tokens as a Python list of strings
StrList(tokens) == PyList([i \in 1..Len(tokens) |-> PyStr(tokens[i])])

\* seq[i] with Python's 0-based index: IndexError past the end
Index(seq, i) == IF i < Len(seq) THEN Ok(seq[i + 1]) ELSE Raise("IndexError")

\* try: r / except: default (a bare except catches every exception)
TryExcept(r, default) == IF r.ok THEN r.val ELSE default

(************************* HTMLGeoScraper **********************************)
(* A fetched detail page is [pageContent |-> None or the fragment], the    *)
(* fragment being what the lookups of the getters find in the page's       *)
(* div#page-content:                                                       *)
(*   b            the first <b> whose string matches 'Coordinates', with   *)
(*                its nextSibling (None, a Tag or a NavigableString)       *)
(*   h1, address, description (div#place-description)   a Tag with its     *)
(*                text, or None                                            *)
(*   nearby       div#nearby-places with its <li>, each with its first <a> *)
(*                and first <span> (a Tag with its text, or None)          *)
(***************************************************************************)
Tag(text) == [t |-> "Tag", text |-> text]

EmptyFragment ==
    [t |-> "Tag", b |-> PyNone, h1 |-> PyNone, address |-> PyNone,
     description |-> PyNone, nearby |-> PyNone]

\* bs(self.html, 'lxml', parse_only=SoupStrainer('div', {'id': 'page-content'}))
ParsePageContent(html) ==
    IF IsNone(html.pageContent) THEN EmptyFragment ELSE html.pageContent

\* html_object.find('b', text=...).nextSibling.split()
CoordinatesLookup(html_object) ==
    IF IsNone(html_object.b) THEN Raise("AttributeError")
    ELSE IF IsNone(html_object.b.nextSibling) THEN Raise("AttributeError")
    ELSE IF html_object.b.nextSibling.t = "Tag" THEN Raise("TypeError")
    ELSE Ok(StrList(Split(html_object.b.nextSibling.v)))

\* mutant: the lookup without its try/except
HTML_get_geometry_Unguarded(html_object) ==
    LET coordinates == CoordinatesLookup(html_object)
    IN IF ~coordinates.ok THEN coordinates
       ELSE Ok(PyDict(<< <<"type", PyStr(<<"Point">>)>>,
                         <<"coordinates", coordinates.val>> >>))

HTML_get_geometry(html_object) ==
    LET coordinates == TryExcept(CoordinatesLookup(html_object), PyList(<<>>))
    IN Ok(PyDict(<< <<"type", PyStr(<<"Point">>)>>,
                    <<"coordinates", coordinates>> >>))

HTML_get_title(html_object) ==
    LET r == IF IsNone(html_object.h1) THEN Raise("AttributeError")
             ELSE Ok(PyStr(html_object.h1.text))
        title == TryExcept(r, PyNone)
    IN Ok(PyDict(<< <<"title", title>> >>))

HTML_get_location(html_object) ==
    IF IsNone(html_object.address) THEN Raise("AttributeError")
    ELSE LET address == Split(html_object.address.text)
             country == Index(address, 0)
             state == Index(address, 2)
             place == Index(address, 4)
         IN IF ~country.ok THEN country
            ELSE IF ~state.ok THEN state
            ELSE IF ~place.ok THEN place
            ELSE Ok(PyDict(<< <<"country", PyStr(country.val)>>,
                              <<"state", PyStr(state.val)>>,
                              <<"place", PyStr(place.val)>> >>))

HTML_get_description(html_object) ==
    LET description == html_object.description
    IN Ok(PyDict(<< <<"description",
                      IF ~IsNone(description)
                      THEN PyStr(Strip(description.text))
                      ELSE PyNone>> >>))

\* {'name': place.a.text, 'distance': place.span.text}
NearbyPlace(place) ==
    IF IsNone(place.a) \/ IsNone(place.span) THEN Raise("AttributeError")
    ELSE Ok(PyDict(<< <<"name", PyStr(place.a.text)>>,
                      <<"distance", PyStr(place.span.text)>> >>))

\* mutant: an absent container read as an empty list
HTML_get_nearby_places_Tolerant(html_object) ==
    LET nearby_places == html_object.nearby
    IN IF IsNone(nearby_places) THEN Ok(PyList(<<>>))
       ELSE IF \E i \in 1..Len(nearby_places.li) : ~NearbyPlace(nearby_places.li[i]).ok
            THEN Raise("AttributeError")
            ELSE Ok(PyList([i \in 1..Len(nearby_places.li) |->
                               NearbyPlace(nearby_places.li[i]).val]))

HTML_get_nearby_places(html_object) ==
    LET nearby_places == html_object.nearby
    IN IF IsNone(nearby_places) THEN Raise("AttributeError")
       ELSE IF \E i \in 1..Len(nearby_places.li) : ~NearbyPlace(nearby_places.li[i]).ok
            THEN Raise("AttributeError")
            ELSE Ok(PyList([i \in 1..Len(nearby_places.li) |->
                               NearbyPlace(nearby_places.li[i]).val]))

\* the four getters in the order of the source; the first to raise ends it
Properties(title, location, description, nearby_places) ==
    IF ~title.ok THEN title
    ELSE IF ~location.ok THEN location
    ELSE IF ~description.ok THEN description
    ELSE IF ~nearby_places.ok THEN nearby_places
    ELSE Ok(PyDict(<< <<"title", title.val>>,
                      <<"location", location.val>>,
                      <<"description", description.val>>,
                      <<"nearestPlaces", nearby_places.val>> >>))

HTML_get_properties(html_object) ==
    Properties(HTML_get_title(html_object),
               HTML_get_location(html_object),
               HTML_get_description(html_object),
               HTML_get_nearby_places(html_object))

\* mutant: the discriminator left out of the record
Feature_NoType(geometry, properties) ==
    IF ~geometry.ok THEN geometry
    ELSE IF ~properties.ok THEN properties
    ELSE Ok(PyDict(<< <<"geometry", geometry.val>>,
                      <<"properties", properties.val>> >>))

Feature(geometry, properties) ==
    IF ~geometry.ok THEN geometry
    ELSE IF ~properties.ok THEN properties
    ELSE Ok(PyDict(<< <<"type", PyStr(<<"Feature">>)>>,
                      <<"geometry", geometry.val>>,
                      <<"properties", properties.val>> >>))

HTML_parse_point_to_geoJSON(self) ==
    LET html_object == ParsePageContent(self.html)
    IN Feature(HTML_get_geometry(html_object), HTML_get_properties(html_object))

(************************** APIGeoScraper **********************************)
API_get_geometry(self) ==
    LET coordinates == TryExcept(Subscript(self.json, "polygon"), PyList(<<>>))
    IN Ok(PyDict(<< <<"type", PyStr(<<"polygon">>)>>,
                    <<"coordinates", coordinates>> >>))

\* mutant: the lookup without its try/except
API_get_location_Unguarded(self) == Subscript(self.json, "location")

API_get_location(self) == Ok(TryExcept(Subscript(self.json, "location"), PyNone))

API_get_description(self) == Ok(TryExcept(Subscript(self.json, "description"), PyNone))

API_get_nearby_places(self) == Ok(TryExcept(Subscript(self.json, "nearestPlaces"), PyNone))

API_get_title(self) == Ok(TryExcept(Subscript(self.json, "title"), PyNone))

API_get_properties(self) ==
    Properties(API_get_title(self), API_get_location(self),
               API_get_description(self), API_get_nearby_places(self))

API_parse_point_to_geoJSON(self) ==
    Feature(API_get_geometry(self), API_get_properties(self))

(**************************** json.dumps ***********************************)
(* The encoded text is a sequence of characters and character runs, with   *)
(* the default separators ', ' and ': ' and the control characters and the *)
(* quote of a str escaped.                                                 *)
(***************************************************************************)
EscapeAtom(a) ==
    CASE a = "\n" -> "\\n"
      [] a = "\t" -> "\\t"
      [] a = "\"" -> "\\\""
      [] OTHER -> a

Escape(text) == [i \in 1..Len(text) |-> EscapeAtom(text[i])]

RECURSIVE dumps(_)
RECURSIVE DumpsItems(_, _)
DumpsItems(l, i) ==
    IF i > Len(l) THEN <<>>
    ELSE (IF i > 1 THEN <<", ">> ELSE <<>>) \o dumps(l[i]) \o DumpsItems(l, i + 1)

RECURSIVE DumpsPairs(_, _)
DumpsPairs(d, i) ==
    IF i > Len(d) THEN <<>>
    ELSE (IF i > 1 THEN <<", ">> ELSE <<>>)
         \o <<"\"", d[i][1], "\"", ": ">> \o dumps(d[i][2]) \o DumpsPairs(d, i + 1)

dumps(v) ==
    CASE v.t = "None" -> <<"null">>
      [] v.t = "str" -> <<"\"">> \o Escape(v.v) \o <<"\"">>
      [] v.t = "float" -> v.v
      [] v.t = "list" -> <<"[">> \o DumpsItems(v.v, 1) \o <<"]">>
      [] v.t = "dict" -> <<"{">> \o DumpsPairs(v.v, 1) \o <<"}">>

(***************************** the sinks ***********************************)
\* file.write(dumps(geo_json)+',\n') on a file opened for appending
FileAppend(f, geo_json) == Append(f, dumps(geo_json) \o <<",", "\n">>)

\* insert_one: the document gains the _id the collection gives it
ObjectId(n) == [t |-> "ObjectId", v |-> n]

insert_one(collection, doc) ==
    Append(collection, PyDict(Append(doc.v, <<"_id", ObjectId(Len(collection) + 1)>>)))

\* what the environment does to one pipeline call: nothing, or it fails the
\* open of the output file, db_connect, or insert_one
Outcomes == {"ok", "open", "connect", "insert"}

\* db_connect(connection_string, db, collection): the collection, or its
\* own exception when the client cannot be made
db_connect(outcome) ==
    IF outcome = "connect" THEN RaiseMsg("Exception", <<"Error: db related">>)
    ELSE Ok(PyNone)

\* mutant: the insert moved before the append to the file
PipelineCall_InsertFirst(geo_json, outcome, f, collection) ==
    IF ~geo_json.ok
    THEN [res |-> geo_json, file |-> f, store |-> collection]
    ELSE IF outcome = "connect"
    THEN [res |-> RaiseMsg("Exception", <<"Error: db related">>),
          file |-> f, store |-> collection]
    ELSE IF outcome = "insert"
    THEN [res |-> Raise("PyMongoError"), file |-> f, store |-> collection]
    ELSE IF outcome = "open"
    THEN [res |-> Raise("OSError"), file |-> f,
          store |-> insert_one(collection, geo_json.val)]
    ELSE [res |-> Ok(PyNone),
          file |-> FileAppend(f, geo_json.val),
          store |-> insert_one(collection, geo_json.val)]

\* __call__ of either extractor: extract, append to the file, insert
PipelineCall(geo_json, outcome, f, collection) ==
    IF ~geo_json.ok
    THEN [res |-> geo_json, file |-> f, store |-> collection]
    ELSE IF outcome = "open"
    THEN [res |-> Raise("OSError"), file |-> f, store |-> collection]
    ELSE IF ~db_connect(outcome).ok
    THEN [res |-> db_connect(outcome),
          file |-> FileAppend(f, geo_json.val), store |-> collection]
    ELSE IF outcome = "insert"
    THEN [res |-> Raise("PyMongoError"),
          file |-> FileAppend(f, geo_json.val), store |-> collection]
    ELSE [res |-> Ok(PyNone),
          file |-> FileAppend(f, geo_json.val),
          store |-> insert_one(collection, geo_json.val)]

(*************************** link collector ********************************)
(* A listing page's body is the sequence of its elements in document       *)
(* order; the empty body is <<>>.  An element has its tag, whether it lies *)
(* inside a div of class span3, and its href and data-url attributes (None *)
(* when absent).                                                           *)
(***************************************************************************)
check_last_page(res) ==
    IF res.status_code # 200 THEN PyNone ELSE [t |-> "str", v |-> res.text]

\* not page_html: None and the empty string are both false
Falsy(x) == IsNone(x) \/ x.v = <<>>

\* mutant: the data-url filter dropped
IsLink_AnyHref(node) ==
    /\ node.tag = "a"
    /\ node.inSpan3
    /\ ~IsNone(node.href)

\* find_all('a', attrs={'href': True, 'data-url': False}) within div.span3
IsLink(node) ==
    /\ node.tag = "a"
    /\ node.inSpan3
    /\ ~IsNone(node.href)
    /\ IsNone(node.dataUrl)

LinksOf(body) ==
    LET found == SelectSeq(body, IsLink)
    IN PyList([i \in 1..Len(found) |-> found[i].href])

get_wikimapia_links_from_html(res) ==
    LET page_html == check_last_page(res)
    IN IF Falsy(page_html) THEN Ok(PyNone) ELSE Ok(LinksOf(page_html.v))

(************************** the inputs *************************************)
SeqUpTo(S, n) == UNION {[1..k -> S] : k \in 0..n}

StatusCodes == {200, 404, 500}

\* --- listing pages
Hrefs == {PyNone, PyStr(<<"/country/Israel/Haifa/">>), PyStr(<<"/country/Israel/Acre/">>)}

DataUrls == {PyNone, PyStr(<<"/ajax/more">>)}

Nodes ==
    [tag : {"a"}, inSpan3 : {TRUE}, href : Hrefs, dataUrl : DataUrls]
    \cup {[tag |-> "a", inSpan3 |-> FALSE,
           href |-> PyStr(<<"/about/">>), dataUrl |-> PyNone],
          [tag |-> "p", inSpan3 |-> TRUE, href |-> PyNone, dataUrl |-> PyNone]}

ListingBodies == SeqUpTo(Nodes, MaxNodes)

UrlParts ==
    { << <<"http:", "/", "/", "wikimapia.org", "/", "country", "/">> >>,
      << <<"http:", "/", "/", "wikimapia.org", "/", "country", "/">>,
         <<"Israel", "/">> >> }

\* ''.join(url_parts)
RECURSIVE Join(_)
Join(parts) == IF parts = <<>> THEN <<>> ELSE Head(parts) \o Join(Tail(parts))

\* --- detail pages
CoordTexts == { <<" ">>, <<" ", "32.08N", " ", " ", "34.78E", "\n">> }

Siblings ==
    {PyNone, [t |-> "Tag"]} \cup {[t |-> "NavigableString", v |-> x] : x \in CoordTexts}

BOptions == {PyNone} \cup {[t |-> "Tag", nextSibling |-> sib] : sib \in Siblings}

H1Options == {PyNone, Tag(<<"Park", " ", "X">>)}

AddressTexts ==
    { <<"Israel", " ", ",", " ", "Haifa">>,
      <<"Israel", " ", ",", " ", "Haifa", " ", ",">>,
      <<"\n", "Israel", " ", ",", " ", "Haifa", " ", ",", " ", "Acre", "\n">>,
      <<"Israel", " ", ",", " ", "Tel", " ", "Aviv", " ", "District", " ", ",",
        " ", "Tel", " ", "Aviv">> }

AddressOptions == {PyNone} \cup {Tag(x) : x \in AddressTexts}

DescriptionOptions == {PyNone, Tag(<<"\n", " ", "A", "\n", "park", " ">>)}

LiOptions ==
    { [a |-> Tag(<<"Cafe">>), span |-> Tag(<<"1", " ", "km">>)],
      [a |-> PyNone, span |-> Tag(<<"3", " ", "km">>)],
      [a |-> Tag(<<"Pier">>), span |-> PyNone] }

NearbyOptions ==
    {PyNone} \cup {[t |-> "Tag", li |-> l] : l \in SeqUpTo(LiOptions, MaxPlaces)}

Fragments ==
    [t : {"Tag"}, b : BOptions, h1 : H1Options, address : AddressOptions,
     description : DescriptionOptions, nearby : NearbyOptions]

Pages == {[pageContent |-> PyNone]} \cup {[pageContent |-> frag] : frag \in Fragments}

DetailUrls ==
    { <<"http:", "/", "/", "wikimapia.org", "/", "123", "/", "en", "/", "Park">>,
      <<"wikimapia.org", "/", "123">> }

\* --- API responses: the body is held as the value it decodes to, or as
\* invalid JSON
ApiKeys == <<"polygon", "location", "description", "nearestPlaces", "title">>

ApiValue(k) ==
    CASE k = "polygon" ->
           PyList(<< PyDict(<< <<"x", PyFloat(<<"34.78">>)>>, <<"y", PyFloat(<<"32.08">>)>> >>) >>)
      [] k = "location" ->
           PyDict(<< <<"country", PyStr(<<"Israel">>)>>,
                     <<"place", PyStr(<<"Tel", " ", "Aviv">>)>> >>)
      [] k = "description" -> PyStr(<<"A", "\n", "park">>)
      [] k = "nearestPlaces" ->
           PyList(<< PyDict(<< <<"name", PyStr(<<"Cafe">>)>>,
                               <<"distance", PyStr(<<"1", " ", "km">>)>> >>) >>)
      [] k = "title" -> PyStr(<<"Park", " ", "X">>)

\* each expected key absent, present with null, or present with a value
JsonObject(c) ==
    LET all == [i \in 1..Len(ApiKeys) |->
                   <<ApiKeys[i],
                     IF c[ApiKeys[i]] = "null" THEN PyNone ELSE ApiValue(ApiKeys[i])>>]
        Present(pair) == c[pair[1]] # "absent"
    IN PyDict(SelectSeq(all, Present))

JsonValues ==
    {JsonObject(c) : c \in [Range(ApiKeys) -> {"absent", "null", "value"}]}
    \cup {PyList(<<>>), PyNone}

ApiBodies ==
    {[valid |-> FALSE, value |-> PyNone]} \cup {[valid |-> TRUE, value |-> j] : j \in JsonValues}

\* json.loads
loads(text) == IF text.valid THEN Ok(text.value) ELSE Raise("JSONDecodeError")

\* a non-success response carries no page
ErrorBody == <<>>

Response(code, text) == [status_code |-> code, text |-> text]

Responses(bodies) ==
    {Response(200, body) : body \in bodies}
    \cup {Response(code, ErrorBody) : code \in StatusCodes \ {200}}

(*************************** the state *************************************)
NoScraper == [cls |-> "None"]

NoResponse == [status_code |-> 0, text |-> ErrorBody]

Returned(op, arg, res) == [op |-> op, arg |-> arg, res |-> res]

Init ==
    /\ pc = "idle"
    /\ scraper = NoScraper
    /\ resp = NoResponse
    /\ gets = <<>>
    /\ ret = Returned("none", <<>>, Ok(PyNone))
    /\ file = <<>>
    /\ store = <<>>

\* datetime.datetime.now() in a message
Now == "<now>"

ScrapeError(url) ==
    RaiseMsg("Exception", <<Now, " ERROR: GeoScraper couldn't scrape ">> \o url)

\* one call of the link collector: one GET of the joined url
GetLinks ==
    /\ pc = "idle"
    /\ \E url_parts \in UrlParts : \E res \in Responses(ListingBodies) :
          /\ gets' = Append(gets, Join(url_parts))
          /\ resp' = res
          /\ ret' = Returned("get_wikimapia_links_from_html", Join(url_parts),
                             get_wikimapia_links_from_html(res))
    /\ pc' = "listed"
    /\ UNCHANGED <<scraper, file, store>>

\* mutant: only a 404 counts as a failed fetch
HTML_init_Only404(url, res) ==
    IF res.status_code = 404
    THEN [self |-> NoScraper, res |-> ScrapeError(url)]
    ELSE [self |-> [cls |-> "HTMLGeoScraper", html |-> res.text], res |-> Ok(PyNone)]

\* HTMLGeoScraper(url, requests_session)
HTML_init(url, res) ==
    IF res.status_code # 200
    THEN [self |-> NoScraper, res |-> ScrapeError(url)]
    ELSE [self |-> [cls |-> "HTMLGeoScraper", html |-> res.text], res |-> Ok(PyNone)]

ConstructHTML ==
    /\ pc = "idle"
    /\ \E url \in DetailUrls : \E res \in Responses(Pages) :
          LET made == HTML_init(url, res)
          IN /\ gets' = Append(gets, url)
             /\ resp' = res
             /\ scraper' = made.self
             /\ ret' = Returned("HTMLGeoScraper", url, made.res)
             /\ pc' = IF made.res.ok THEN "ready" ELSE "failed"
    /\ UNCHANGED <<file, store>>

ApiUrl(id) ==
    <<"http://api.wikimapia.org/?key=example&function=place.getbyid&id=">> \o id
    \o <<"&format=json&pack=&language=en&data_blocks=main%2Cgeometry%2Ccomments%2Clocation%2Cnearest_places%2Cnearest_comments%2Cattached%2C">>

\* APIGeoScraper(url, requests_session), once the id is known
API_init(url, id, res) ==
    IF res.status_code # 200
    THEN [self |-> NoScraper, res |-> ScrapeError(url)]
    ELSE LET json == loads(res.text)
         IN IF ~json.ok
            THEN [self |-> NoScraper, res |-> json]
            ELSE [self |-> [cls |-> "APIGeoScraper", id |-> id, json |-> json.val],
                  res |-> Ok(PyNone)]

\* self.id = url.split('/')[3]
UrlId(url) == Index(SplitOn(url, "/"), 3)

ConstructAPI ==
    /\ pc = "idle"
    /\ \E url \in DetailUrls : \E res \in Responses(ApiBodies) :
          LET id == UrlId(url)
              made == IF id.ok THEN API_init(url, id.val, res)
                      ELSE [self |-> NoScraper, res |-> id]
          IN /\ gets' = IF id.ok THEN Append(gets, ApiUrl(id.val)) ELSE gets
             /\ resp' = IF id.ok THEN res ELSE resp
             /\ scraper' = made.self
             /\ ret' = Returned("APIGeoScraper", url, made.res)
             /\ pc' = IF made.res.ok THEN "ready" ELSE "failed"
    /\ UNCHANGED <<file, store>>

HTMLGetters ==
    {"get_geometry", "get_title", "get_location", "get_description",
     "get_nearby_places", "get_properties", "parse_point_to_geoJSON"}

HTMLApply(g, self) ==
    LET html_object == ParsePageContent(self.html)
    IN CASE g = "get_geometry" -> HTML_get_geometry(html_object)
         [] g = "get_title" -> HTML_get_title(html_object)
         [] g = "get_location" -> HTML_get_location(html_object)
         [] g = "get_description" -> HTML_get_description(html_object)
         [] g = "get_nearby_places" -> HTML_get_nearby_places(html_object)
         [] g = "get_properties" -> HTML_get_properties(html_object)
         [] g = "parse_point_to_geoJSON" -> HTML_parse_point_to_geoJSON(self)

\* a method of the HTML extractor called on its own
HTMLMethod ==
    /\ pc = "ready"
    /\ scraper.cls = "HTMLGeoScraper"
    /\ \E g \in HTMLGetters : ret' = Returned(g, <<>>, HTMLApply(g, scraper))
    /\ UNCHANGED <<pc, scraper, resp, gets, file, store>>

APIGetters ==
    {"get_geometry", "get_title", "get_location", "get_description",
     "get_nearby_places", "get_properties", "parse_point_to_geoJSON"}

APIApply(g, self) ==
    CASE g = "get_geometry" -> API_get_geometry(self)
      [] g = "get_title" -> API_get_title(self)
      [] g = "get_location" -> API_get_location(self)
      [] g = "get_description" -> API_get_description(self)
      [] g = "get_nearby_places" -> API_get_nearby_places(self)
      [] g = "get_properties" -> API_get_properties(self)
      [] g = "parse_point_to_geoJSON" -> API_parse_point_to_geoJSON(self)

\* a method of the API extractor called on its own
APIMethod ==
    /\ pc = "ready"
    /\ scraper.cls = "APIGeoScraper"
    /\ \E g \in APIGetters : ret' = Returned(g, <<>>, APIApply(g, scraper))
    /\ UNCHANGED <<pc, scraper, resp, gets, file, store>>

\* HTMLGeoScraper.__call__
HTMLCall ==
    /\ pc = "ready"
    /\ scraper.cls = "HTMLGeoScraper"
    /\ Len(file) < MaxCalls
    /\ \E outcome \in Outcomes :
          LET done == PipelineCall(HTML_parse_point_to_geoJSON(scraper), outcome, file, store)
          IN /\ ret' = Returned("__call__", <<>>, done.res)
             /\ file' = done.file
             /\ store' = done.store
    /\ UNCHANGED <<pc, scraper, resp, gets>>

\* APIGeoScraper.__call__
APICall ==
    /\ pc = "ready"
    /\ scraper.cls = "APIGeoScraper"
    /\ Len(file) < MaxCalls
    /\ \E outcome \in Outcomes :
          LET done == PipelineCall(API_parse_point_to_geoJSON(scraper), outcome, file, store)
          IN /\ ret' = Returned("__call__", <<>>, done.res)
             /\ file' = done.file
             /\ store' = done.store
    /\ UNCHANGED <<pc, scraper, resp, gets>>

Next ==
    \/ GetLinks
    \/ ConstructHTML
    \/ ConstructAPI
    \/ HTMLMethod
    \/ APIMethod
    \/ HTMLCall
    \/ APICall

Spec == Init /\ [][Next]_vars

(***************************************************************************)
(*                         Properties                                      *)
(***************************************************************************)
\* what the claims say of an input, stated on the input itself
IsHTML == scraper.cls = "HTMLGeoScraper"
IsAPI == scraper.cls = "APIGeoScraper"

Frag == IF IsNone(scraper.html.pageContent) THEN EmptyFragment ELSE scraper.html.pageContent

\* the positions where a whitespace-separated word of the text starts
WordStarts(text) ==
    {i \in 1..Len(text) : ~IsSpace(text[i]) /\ (i = 1 \/ IsSpace(text[i - 1]))}

WordCount(text) == Cardinality(WordStarts(text))

\* the j-th word of the text: from its start to the end of its run
WordEnd(text, i) ==
    CHOOSE e \in i..Len(text) :
        /\ \A k \in i..e : ~IsSpace(text[k])
        /\ (e = Len(text) \/ IsSpace(text[e + 1]))

NthStart(text, j) ==
    CHOOSE i \in WordStarts(text) : Cardinality({k \in WordStarts(text) : k <= i}) = j

Words(text) ==
    [j \in 1..WordCount(text) |->
        PyStr(SubSeq(text, NthStart(text, j), WordEnd(text, NthStart(text, j))))]

AddressOk == ~IsNone(Frag.address) /\ WordCount(Frag.address.text) >= 5

NearbyOk ==
    /\ ~IsNone(Frag.nearby)
    /\ \A i \in 1..Len(Frag.nearby.li) :
          ~IsNone(Frag.nearby.li[i].a) /\ ~IsNone(Frag.nearby.li[i].span)

IsFeature(v) ==
    /\ v.t = "dict"
    /\ Len(v.v) = 3
    /\ {v.v[i][1] : i \in 1..3} = {"type", "geometry", "properties"}
    /\ \E i \in 1..3 : v.v[i][1] = "type" /\ v.v[i][2] = PyStr(<<"Feature">>)

Extracted == ret.op = "parse_point_to_geoJSON"

\* C1 (as stated): for every valid detail input, extract() of either variant
\* returns a Feature with exactly the keys type, geometry, properties and
\* type "Feature", whatever sub-fields are missing.
C1_AlwaysFeature == Extracted => (ret.res.ok /\ IsFeature(ret.res.val))

\* C1 (amended): extract() of the API variant always returns, extract() of
\* the HTML variant returns exactly when the address block has at least five
\* tokens and the nearby-places container is present with a link and a label
\* in every item; whenever extract() returns, the result is a Feature with
\* exactly the keys type, geometry, properties and type "Feature".
C1_FeatureWhenExtractable ==
    Extracted =>
        /\ ret.res.ok => IsFeature(ret.res.val)
        /\ IsAPI => ret.res.ok
        /\ IsHTML => (ret.res.ok <=> (AddressOk /\ NearbyOk))

C1_Witness ==
    /\ Extracted
    /\ IsHTML
    /\ ret.res.ok
    /\ IsNone(Frag.b)
    /\ IsNone(Frag.h1)
    /\ IsNone(Frag.description)

Prop(k) == Lookup(Lookup(ret.res.val, "properties"), k)

IsNearbyPlaceRecord(v) ==
    /\ v.t = "dict"
    /\ Len(v.v) = 2
    /\ v.v[1][1] = "name" /\ v.v[1][2].t = "str"
    /\ v.v[2][1] = "distance" /\ v.v[2][2].t = "str"

\* C2: in every Feature either variant returns, properties has exactly the
\* keys title, location, description, nearestPlaces; title is a string or
\* null, location a mapping or null, description a string or null, and
\* nearestPlaces a sequence of NearbyPlace records, never null.
C2_PropertiesContract ==
    (Extracted /\ ret.res.ok) =>
        /\ Keys(Lookup(ret.res.val, "properties"))
              = <<"title", "location", "description", "nearestPlaces">>
        /\ Prop("title").t \in {"str", "None"}
        /\ Prop("location").t \in {"dict", "None"}
        /\ Prop("description").t \in {"str", "None"}
        /\ Prop("nearestPlaces").t = "list"
        /\ \A i \in 1..Len(Prop("nearestPlaces").v) :
              IsNearbyPlaceRecord(Prop("nearestPlaces").v[i])

Contains(msg, part) ==
    \E i \in 1..Len(msg) : SubSeq(msg, i, i + Len(part) - 1) = part

Constructed == ret.op \in {"HTMLGeoScraper", "APIGeoScraper"}

FetchFailed == Constructed /\ resp.status_code \notin {0, 200}

\* C3: when the detail fetch returns a non-success status, construction of
\* either variant has issued exactly one GET and failed with an error that
\* names the url; no extractor exists and nothing was written to the file or
\* to the store.
C3_FetchFailure ==
    FetchFailed =>
        /\ Len(gets) = 1
        /\ ~ret.res.ok
        /\ ret.res.exc.type = "Exception"
        /\ Contains(ret.res.exc.msg, ret.arg)
        /\ scraper.cls = "None"
        /\ pc = "failed"
        /\ file = <<>>
        /\ store = <<>>

C3_Witness ==
    /\ FetchFailed
    /\ ret.op = "APIGeoScraper"
    /\ resp.status_code = 404
    /\ ~ret.res.ok

\* the document without the _id the store gave it
WithoutId(doc) == PyDict(SelectSeq(doc.v, LAMBDA pair : pair[1] # "_id"))

IsLineOf(line, geo_json) == line = dumps(geo_json) \o <<",", "\n">>

OneLine(line) ==
    /\ Len(line) >= 2
    /\ line[Len(line) - 1] = ","
    /\ line[Len(line)] = "\n"
    /\ \A i \in 1..(Len(line) - 1) : line[i] # "\n"

ExtractionErrors == {"AttributeError", "IndexError", "TypeError", "KeyError"}

StoreErrors == {"Exception", "PyMongoError"}

\* one pipeline call, as a step
CallStep ==
    /\ ret'.op = "__call__"
    /\ Len(file') \in {Len(file), Len(file) + 1}
    /\ SubSeq(file', 1, Len(file)) = file
    /\ Len(store') \in {Len(store), Len(store) + 1}
    /\ SubSeq(store', 1, Len(store)) = store
    /\ Len(file') > Len(file) => OneLine(file'[Len(file')])
    /\ Len(store') > Len(store) =>
          /\ Len(file') > Len(file)
          /\ IsLineOf(file'[Len(file')], WithoutId(store'[Len(store')]))
          /\ IsFeature(WithoutId(store'[Len(store')]))
    /\ (~ret'.res.ok /\ ret'.res.exc.type \in ExtractionErrors) =>
          (file' = file /\ store' = store)
    /\ (~ret'.res.ok /\ ret'.res.exc.type \in StoreErrors) =>
          (Len(file') = Len(file) + 1 /\ store' = store)
    /\ ret'.res.ok => (Len(file') = Len(file) + 1 /\ Len(store') = Len(store) + 1)

\* C4: a pipeline call extracts, then appends one JSON-encoded line ending in
\* ',' and a newline to the file, then inserts the same record as one
\* document: at most one append and one insert per call, neither after a
\* failed extraction, the appended line kept when the store fails, and every
\* inserted document with its line in the file.
C4_Pipeline ==
    /\ [][(HTMLCall \/ APICall) => CallStep]_vars
    /\ [](\A i \in 1..Len(store) :
             \E j \in 1..Len(file) : IsLineOf(file[j], WithoutId(store[i])))

C4_Witness ==
    /\ ret.op = "__call__"
    /\ ~ret.res.ok
    /\ ret.res.exc.type \in StoreErrors
    /\ Len(file) = 2
    /\ Len(store) = 1

Listed == ret.op = "get_wikimapia_links_from_html"

\* the anchors of the listing fragment, those carrying the marker, and those
\* with an href
FragmentAnchors == {i \in 1..Len(resp.text) : resp.text[i].tag = "a" /\ resp.text[i].inSpan3}

Marked == {i \in FragmentAnchors : ~IsNone(resp.text[i].dataUrl)}

WithHref == {i \in FragmentAnchors : ~IsNone(resp.text[i].href)}

\* the j-th position of a set of positions, in document order
NthOf(S, j) == CHOOSE i \in S : Cardinality({k \in S : k <= i}) = j

HrefsAt(S) == PyList([j \in 1..Cardinality(S) |-> resp.text[NthOf(S, j)].href])

ListedPage == Listed /\ resp.status_code = 200 /\ resp.text # <<>>

\* C5 (as stated): from a fetched listing fragment with N anchors of which K
\* carry the data-url marker, exactly N-K links are returned, in document
\* order and without deduplication.
C5_AllUnmarkedAnchors ==
    ListedPage =>
        /\ ret.res.ok
        /\ ret.res.val.t = "list"
        /\ Len(ret.res.val.v) = Cardinality(FragmentAnchors) - Cardinality(Marked)

\* C5 (amended): from a fetched, non-empty listing page the collector returns
\* the href of exactly the anchors of the fragment that have an href
\* attribute and no data-url marker, in document order and without
\* deduplication.
C5_UnmarkedAnchorsWithHref ==
    ListedPage =>
        /\ ret.res.ok
        /\ ret.res.val.t = "list"
        /\ ret.res.val = HrefsAt(WithHref \ Marked)

C5_Witness ==
    /\ ListedPage
    /\ Cardinality(FragmentAnchors) = 3
    /\ Cardinality(Marked) = 1
    /\ Cardinality(WithHref) = 3
    /\ ret.res.val.t = "list"
    /\ Len(ret.res.val.v) = 2
    /\ ret.res.val.v[1] = ret.res.val.v[2]

\* C6: the collector performs exactly one fetch per call and returns None if
\* and only if the fetch had a non-success status; every successful fetch,
\* an empty body included, returns a collection.
C6_NoneIffFetchFailed ==
    Listed =>
        /\ Len(gets) = 1
        /\ ret.res.ok
        /\ IsNone(ret.res.val) <=> resp.status_code # 200

\* the value the parsed response holds under a key, None when it holds none
Held(k) ==
    IF scraper.json.t = "dict" /\ \E i \in 1..Len(scraper.json.v) : scraper.json.v[i][1] = k
    THEN scraper.json.v[CHOOSE i \in 1..Len(scraper.json.v) : scraper.json.v[i][1] = k][2]
    ELSE PyNone

Missing(k) ==
    ~(scraper.json.t = "dict" /\ \E i \in 1..Len(scraper.json.v) : scraper.json.v[i][1] = k)

PolygonOf(coordinates) ==
    PyDict(<< <<"type", PyStr(<<"polygon">>)>>, <<"coordinates", coordinates>> >>)

\* C7: each getter of the API variant returns None for its absent key (the
\* geometry getter a polygon with no coordinates) and the value of the key
\* when it is present; none raises, and a key's absence changes no other
\* getter's result.
C7_ApiGetters ==
    IsAPI =>
        /\ ret.op = "get_geometry" =>
              /\ ret.res.ok
              /\ ret.res.val = PolygonOf(IF Missing("polygon") THEN PyList(<<>>)
                                         ELSE Held("polygon"))
        /\ ret.op = "get_location" => (ret.res.ok /\ ret.res.val = Held("location"))
        /\ ret.op = "get_description" => (ret.res.ok /\ ret.res.val = Held("description"))
        /\ ret.op = "get_nearby_places" => (ret.res.ok /\ ret.res.val = Held("nearestPlaces"))
        /\ ret.op = "get_title" => (ret.res.ok /\ ret.res.val = Held("title"))
        /\ ret.op = "get_properties" =>
              /\ ret.res.ok
              /\ ret.res.val = PyDict(<< <<"title", Held("title")>>,
                                         <<"location", Held("location")>>,
                                         <<"description", Held("description")>>,
                                         <<"nearestPlaces", Held("nearestPlaces")>> >>)

C7_Witness ==
    /\ IsAPI
    /\ ret.op = "get_properties"
    /\ ret.res.ok
    /\ Missing("location")
    /\ Missing("polygon")
    /\ ~Missing("description")
    /\ ~IsNone(Held("description"))
    /\ ~Missing("title")

\* the three parts of an address laid out as "Country , State , Place"
AddressParts(text) == SplitOn(text, ",")

ThreePart(text) ==
    /\ Len(AddressParts(text)) = 3
    /\ \A i \in 1..3 : Strip(AddressParts(text)[i]) # <<>>

\* C8: for an address block laid out as "Country , State , Place" the HTML
\* variant's get_location returns {country: Country, state: State, place:
\* Place}, also when a part is several words long.
C8_ThreePartAddress ==
    (IsHTML /\ ret.op = "get_location" /\ ~IsNone(Frag.address)
        /\ ThreePart(Frag.address.text)) =>
        /\ ret.res.ok
        /\ ret.res.val =
              PyDict(<< <<"country", PyStr(Strip(AddressParts(Frag.address.text)[1]))>>,
                        <<"state", PyStr(Strip(AddressParts(Frag.address.text)[2]))>>,
                        <<"place", PyStr(Strip(AddressParts(Frag.address.text)[3]))>> >>)

PointOf(coordinates) ==
    PyDict(<< <<"type", PyStr(<<"Point">>)>>, <<"coordinates", coordinates>> >>)

HasCoordinateText ==
    /\ ~IsNone(Frag.b)
    /\ Frag.b.nextSibling.t = "NavigableString"

\* C9: the HTML variant's get_geometry never raises; it returns a Point with
\* no coordinates when the Coordinates label is absent or its sibling is
\* missing or no text, and a Point with the sibling text's whitespace-
\* separated tokens in order otherwise.
C9_Geometry ==
    (IsHTML /\ ret.op = "get_geometry") =>
        /\ ret.res.ok
        /\ ret.res.val = PointOf(IF HasCoordinateText
                                 THEN PyList(Words(Frag.b.nextSibling.v))
                                 ELSE PyList(<<>>))

C9_Witness ==
    /\ IsHTML
    /\ ret.op = "get_geometry"
    /\ HasCoordinateText
    /\ ret.res.ok
    /\ Len(Lookup(ret.res.val, "coordinates").v) = 2

\* C10: extract() of the HTML variant fails, and the pipeline writes to
\* neither sink, whenever the nearby-places container is absent or the
\* address block is absent or shorter than five tokens; an absent
\* Coordinates label, heading or description container never makes it fail
\* and is replaced by its default: no coordinates, a null title, a null
\* description.
C10_FailurePolicy ==
    IsHTML =>
        /\ (Extracted /\ (IsNone(Frag.nearby) \/ ~AddressOk)) => ~ret.res.ok
        /\ (ret.op = "__call__" /\ (IsNone(Frag.nearby) \/ ~AddressOk)) =>
              (~ret.res.ok /\ file = <<>> /\ store = <<>>)
        /\ (Extracted /\ AddressOk /\ NearbyOk) =>
              /\ ret.res.ok
              /\ IsNone(Frag.b) =>
                    Lookup(Lookup(ret.res.val, "geometry"), "coordinates") = PyList(<<>>)
              /\ IsNone(Frag.h1) => IsNone(Lookup(Prop("title"), "title"))
              /\ IsNone(Frag.description) =>
                    IsNone(Lookup(Prop("description"), "description"))

C10_Witness ==
    /\ IsHTML
    /\ ret.op = "__call__"
    /\ IsNone(Frag.nearby)
    /\ AddressOk
    /\ ~IsNone(Frag.b)
    /\ ~IsNone(Frag.h1)
    /\ ~ret.res.ok

====
